---- MODULE Spec2Model ----
(***************************************************************************)
(* Model of backend/app.py: the Flask gateway in front of the Frankfurter  *)
(* exchange-rate API.  Two handlers carry the behaviour:                   *)
(*   get_rates           GET  /api/rates           (lines 32-93)           *)
(*   get_multiple_rates  POST /api/rates/multiple  (lines 95-228)          *)
(* One request is followed from its arrival to its response.  The upstream *)
(* service and the server clock are the environment: their answers are     *)
(* drawn from small sets when the handler asks for them.                   *)
(***************************************************************************)
EXTENDS Integers, Sequences, FiniteSets, TLC

VARIABLES
    pc,         \* position of the handler: idle, pair, get, wait, transform,
                \* rates_get, rates_wait, done
    request,    \* the inbound request being served
    idx,        \* enumerate() index of the pair being processed (0-based)
    cur,        \* locals of the current pair: base, target, start_date, end_date
    api,        \* api_data: the upstream JSON the current pair received
    results,    \* the batch's results list
    errors,     \* the batch's errors list
    resultIdx,  \* history: resultIdx[k] is the input index results[k] came from
    calls,      \* history: the upstream GETs issued, with the reply each received
    response    \* the HTTP response of the handler

vars == <<pc, request, idx, cur, api, results, errors, resultIdx, calls, response>>

(***************************************************************************)
(* Bounds of the model.                                                    *)
(***************************************************************************)
MaxPairs == 2       \* longest `pairs` list of a batch request
MaxDates == 2       \* most dates in an upstream `rates` mapping (SpecTransform)

(***************************************************************************)
(* JSON values, tagged by type.  Objects are functions from their keys;    *)
(* the upstream `rates` object keeps the order in which its keys were      *)
(* listed (a Python dict iterates in insertion order), so it is a sequence *)
(* of entries with distinct keys.                                          *)
(***************************************************************************)
Str(s) == [k |-> "str", s |-> s]
Num(n) == [k |-> "num", n |-> n]
Null == [k |-> "null"]
Arr(a) == [k |-> "arr", a |-> a]
Obj(o) == [k |-> "obj", o |-> o]
OMap(e) == [k |-> "omap", e |-> e]
Absent == [k |-> "absent"]
NoValue == [k |-> "none"]

\* Python truth value of a JSON value (`not x` is its negation).
Truthy(v) ==
    CASE v.k = "str" -> v.s # ""
      [] v.k = "num" -> v.n # 0
      [] v.k = "arr" -> Len(v.a) > 0
      [] v.k = "obj" -> DOMAIN v.o # {}
      [] v.k = "omap" -> Len(v.e) > 0
      [] OTHER -> FALSE

\* str.upper() on the strings of the model.
Upper(s) ==
    CASE s = "usd" -> "USD"
      [] s = "cad" -> "CAD"
      [] s = "eur" -> "EUR"
      [] OTHER -> s

\* `needle in hay` for two Python strings (substring test), on the strings
\* of the model.
Contains(hay, needle) ==
    \/ needle = ""
    \/ hay = needle
    \/ hay = "my pairs" /\ needle = "pairs"
    \/ hay = "no rates" /\ needle = "rates"
    \/ hay = "CAD=1.35" /\ needle = "CAD"

\* f"{v}" for a JSON value.
Format(v) ==
    CASE v.k = "str" -> v.s
      [] v.k = "null" -> "None"
      [] v.k = "num" -> ToString(v.n)
      [] OTHER -> "?"

(***************************************************************************)
(* The environment: the clock and the upstream service.                    *)
(***************************************************************************)
\* The date an instant has in UTC, and the dates datetime.now() (the server's
\* local time, line 148) can show at that same instant.
UtcToday == "2026-11-02"
LocalDates == {"2026-11-01", "2026-11-02", "2026-11-03"}

Fail == [k |-> "fail"]                  \* requests.get raises (connection, timeout)
NotJson == [k |-> "text"]               \* a body response.json() cannot parse
Http(status, body) == [k |-> "http", status |-> status, body |-> body]

\* The date keys of the model's upstream answers, listed in Python string
\* order (which list.sort uses).
DateKeys == <<"2023-01-02", "2023-01-10", "2023-02-01">>
DateRank(d) == CHOOSE i \in 1..Len(DateKeys) : DateKeys[i] = d

Entry(date, val) == [key |-> date, val |-> val]

\* Upstream lists the later date first; the second date has no CAD value.
SampleRates ==
    OMap(<<Entry("2023-02-01", Obj([CAD |-> Num(136), EUR |-> Num(92)])),
           Entry("2023-01-10", Obj([EUR |-> Num(93)])),
           Entry("2023-01-02", Obj([CAD |-> Num(135)]))>>)

Replies ==
    {Fail,
     Http(404, Obj([message |-> Str("not found")])),
     Http(200, NotJson),
     Http(200, Obj([rates |-> Null])),
     Http(200, Obj([rates |-> SampleRates]))}

\* response.raise_for_status() raises HTTPError for 4xx and 5xx.
RaisesForStatus(r) == r.status >= 400

\* The class of the exception response.json() raises on a non-JSON body:
\* requests.exceptions.JSONDecodeError (a RequestException) in requests >= 2.27,
\* a plain ValueError before; the repository pins no version.
JsonErrorClasses == {"RequestException", "ValueError"}

(***************************************************************************)
(* Outcomes of a piece of code: a value, or a raised exception.            *)
(***************************************************************************)
Ok(v) == [raised |-> FALSE, val |-> v]
Raise(exc, msg) == [raised |-> TRUE, exc |-> exc, msg |-> msg]

(***************************************************************************)
(* get_multiple_rates: the entry checks (lines 121-138).                   *)
(***************************************************************************)
Malformed == [k |-> "malformed"]        \* a body get_json() rejects

\* `'pairs' in data` (line 124), by the type of data.
HasPairs(data) ==
    CASE data.k = "obj" -> Ok("pairs" \in DOMAIN data.o)
      [] data.k = "arr" -> Ok(\E i \in 1..Len(data.a) : data.a[i] = Str("pairs"))
      [] data.k = "str" -> Ok(Contains(data.s, "pairs"))
      [] OTHER -> Raise("Exception", "argument of type is not iterable")

\* data['pairs'] (line 131).
PairsOf(data) ==
    IF data.k = "obj" THEN Ok(data.o["pairs"])
    ELSE Raise("Exception", "indices must be integers")

Reply400(error) == [status |-> 400, success |-> FALSE, error |-> error]
Reply500(error) == [status |-> 500, success |-> FALSE, error |-> error]

\* Lines 121-138 and 222-228: the response that ends the request before the
\* loop, or the list to loop over.
BatchEntry(body) ==
    IF body = Malformed THEN [respond |-> TRUE, response |-> Reply500("Internal server error")]
    ELSE IF ~Truthy(body)
    THEN [respond |-> TRUE, response |-> Reply400("Missing required field: pairs")]
    ELSE LET has == HasPairs(body) IN
         IF has.raised
         THEN [respond |-> TRUE, response |-> Reply500("Internal server error")]
         ELSE IF ~has.val
         THEN [respond |-> TRUE, response |-> Reply400("Missing required field: pairs")]
         ELSE LET p == PairsOf(body) IN
              IF p.raised
              THEN [respond |-> TRUE, response |-> Reply500("Internal server error")]
              ELSE IF p.val.k # "arr" \/ Len(p.val.a) = 0
              THEN [respond |-> TRUE, response |-> Reply400("Invalid pairs format")]
              ELSE [respond |-> FALSE, pairs |-> p.val.a]

(***************************************************************************)
(* get_multiple_rates: one pair (lines 143-211).                           *)
(***************************************************************************)
supported == {"USD", "CAD", "EUR"}

\* dict.get(key, default); anything but a JSON object has no .get.
Get(pair, key, default) == IF key \in DOMAIN pair.o THEN pair.o[key] ELSE default

\* Lines 145-148: the locals of a pair; `now` is what datetime.now() formats to.
PairLocals(pair, now) ==
    IF pair.k # "obj" THEN Raise("Exception", "object has no attribute 'get'")
    ELSE LET b == Get(pair, "base", Str(""))
             t == Get(pair, "target", Str(""))
         IN  IF b.k # "str" \/ t.k # "str"
             THEN Raise("Exception", "object has no attribute 'upper'")
             ELSE Ok([base |-> Upper(b.s),
                      target |-> Upper(t.s),
                      start_date |-> Get(pair, "start_date", Str("")),
                      end_date |-> Get(pair, "end_date", Str(now))])

MsgMissing == "Missing required fields: base, target, or start_date"
MsgUnsupported == "Unsupported currency. Supported: USD, CAD, EUR"
MsgSame == "Base and target currencies must be different"

\* Validate without the check of line 159.
Validate_NoSameCheck(loc) ==
    IF loc.base = "" \/ loc.target = "" \/ ~Truthy(loc.start_date)
    THEN Raise("ValueError", MsgMissing)
    ELSE IF loc.base \notin supported \/ loc.target \notin supported
    THEN Raise("ValueError", MsgUnsupported)
    ELSE Ok(loc)

\* Lines 151-160: the validation of the locals.
Validate(loc) ==
    IF loc.base = "" \/ loc.target = "" \/ ~Truthy(loc.start_date)
    THEN Raise("ValueError", MsgMissing)
    ELSE IF loc.base \notin supported \/ loc.target \notin supported
    THEN Raise("ValueError", MsgUnsupported)
    ELSE IF loc.base = loc.target
    THEN Raise("ValueError", MsgSame)
    ELSE Ok(loc)

\* Lines 145-160 as a whole.
CheckPair(pair, now) ==
    LET l == PairLocals(pair, now) IN IF l.raised THEN l ELSE Validate(l.val)

\* Line 162: the upstream path of a pair.
RangePath(start_date, end_date) == Format(start_date) \o ".." \o Format(end_date)

\* Lines 194-211: the except clauses, in their order.
ErrorText(exc, msg) ==
    CASE exc = "RequestException" -> "API request failed: " \o msg
      [] exc = "ValueError" -> msg
      [] OTHER -> "Unexpected error: " \o msg

ErrorEntry(i, pair, exc, msg) == [index |-> i, pair |-> pair, error |-> ErrorText(exc, msg)]

\* RecordError reporting the position counted from one.
RecordError_OneBased(errs, i, pair, exc, msg) == Append(errs, ErrorEntry(i + 1, pair, exc, msg))

\* RecordError putting the newest entry first.
RecordError_Prepend(errs, i, pair, exc, msg) == <<ErrorEntry(i, pair, exc, msg)>> \o errs

RecordError(errs, i, pair, exc, msg) == Append(errs, ErrorEntry(i, pair, exc, msg))

(***************************************************************************)
(* get_multiple_rates: the transformation of the upstream JSON             *)
(* (lines 170-180).                                                        *)
(***************************************************************************)
\* `'rates' in api_data` (line 172), by the type of api_data.
HasRates(data) ==
    CASE data.k = "obj" -> Ok("rates" \in DOMAIN data.o)
      [] data.k = "arr" -> Ok(\E i \in 1..Len(data.a) : data.a[i] = Str("rates"))
      [] data.k = "str" -> Ok(Contains(data.s, "rates"))
      [] OTHER -> Raise("Exception", "argument of type is not iterable")

\* `target in rate_data` (line 174), by the type of rate_data.
HasTarget(rate_data, target) ==
    CASE rate_data.k = "obj" -> Ok(target \in DOMAIN rate_data.o)
      [] rate_data.k = "str" -> Ok(Contains(rate_data.s, target))
      [] rate_data.k = "arr" -> Ok(\E i \in 1..Len(rate_data.a) : rate_data.a[i] = Str(target))
      [] OTHER -> Raise("Exception", "argument of type is not iterable")

\* rate_data[target] (line 177).
TargetRate(rate_data, target) ==
    IF rate_data.k = "obj" THEN Ok(rate_data.o[target])
    ELSE Raise("Exception", "indices must be integers")

\* Lines 173-178: the loop over the items of the rates mapping, in the
\* mapping's own order, appending to `acc`.
RECURSIVE CollectRates(_, _, _)
CollectRates(items, target, acc) ==
    IF items = <<>> THEN Ok(acc)
    ELSE LET it == Head(items)
             has == HasTarget(it.val, target)
         IN  IF has.raised THEN has
             ELSE IF ~has.val THEN CollectRates(Tail(items), target, acc)
             ELSE LET r == TargetRate(it.val, target) IN
                  IF r.raised THEN r
                  ELSE CollectRates(Tail(items), target,
                                    Append(acc, [date |-> it.key, rate |-> r.val]))

\* Insertion of x into a list sorted by date, after the entries that do not
\* come later (list.sort is stable).
RECURSIVE InsertByDate(_, _)
InsertByDate(sorted, x) ==
    IF sorted = <<>> THEN <<x>>
    ELSE IF DateRank(x.date) < DateRank(Head(sorted).date)
         THEN <<x>> \o sorted
         ELSE <<Head(sorted)>> \o InsertByDate(Tail(sorted), x)

RECURSIVE SortFrom(_, _)
SortFrom(rest, sorted) ==
    IF rest = <<>> THEN sorted ELSE SortFrom(Tail(rest), InsertByDate(sorted, Head(rest)))

\* SortByDate without the sort: the upstream order is kept.
SortByDate_Unsorted(rates) == rates

\* Line 180: rates.sort(key=lambda x: x['date']).
SortByDate(rates) == SortFrom(rates, <<>>)

\* Lines 171-180: the rates list of a pair, or the exception raised.
TransformRates(api_data, target) ==
    LET has == HasRates(api_data) IN
    IF has.raised THEN has
    ELSE IF ~has.val THEN Ok(<<>>)
    ELSE IF api_data.k # "obj" THEN Raise("Exception", "indices must be integers")
    ELSE IF api_data.o["rates"].k # "omap" THEN Raise("Exception", "object has no attribute 'items'")
    ELSE LET c == CollectRates(api_data.o["rates"].e, target, <<>>) IN
         IF c.raised THEN c ELSE Ok(SortByDate(c.val))

\* Lines 182-190: the entry of a successful pair.
ResultEntry(loc, rates) ==
    [success |-> TRUE,
     base_currency |-> loc.base,
     target_currency |-> loc.target,
     start_date |-> loc.start_date,
     end_date |-> loc.end_date,
     data |-> rates,
     count |-> Len(rates)]

\* BatchResponse whose success flag says that some pair succeeded.
BatchResponse_SuccessIfAny(pairs, res, errs) ==
    [status |-> 200,
     success |-> Len(res) > 0,
     results |-> res,
     errors |-> IF Len(errs) > 0 THEN Arr(errs) ELSE Null,
     total_pairs |-> Len(pairs),
     successful |-> Len(res),
     failed |-> Len(errs)]

\* Lines 213-220: the response of a batch whose loop has ended.
BatchResponse(pairs, res, errs) ==
    [status |-> 200,
     success |-> Len(errs) = 0,
     results |-> res,
     errors |-> IF Len(errs) > 0 THEN Arr(errs) ELSE Null,
     total_pairs |-> Len(pairs),
     successful |-> Len(res),
     failed |-> Len(errs)]

(***************************************************************************)
(* get_rates (lines 43-93).                                                *)
(***************************************************************************)
\* Lines 44-47: the locals; request.args.get(key) is None for an absent key.
RatesLocals(args) ==
    [base |-> Upper(Get(args, "base", Str("")).s),
     target |-> Upper(Get(args, "target", Str("")).s),
     start_date |-> Get(args, "start_date", Null),
     end_date |-> Get(args, "end_date", Null)]

\* RatesPath that uses an end date given alone.
RatesPath_EndAlone(start_date, end_date) ==
    IF Truthy(start_date) /\ Truthy(end_date)
    THEN Format(start_date) \o ".." \o Format(end_date)
    ELSE IF Truthy(start_date)
    THEN Format(start_date)
    ELSE IF Truthy(end_date)
    THEN Format(end_date)
    ELSE "latest"

\* Lines 57-62: the upstream path.
RatesPath(start_date, end_date) ==
    IF Truthy(start_date) /\ Truthy(end_date)
    THEN Format(start_date) \o ".." \o Format(end_date)
    ELSE IF Truthy(start_date)
    THEN Format(start_date)
    ELSE "latest"

\* Lines 64-66: the query of the upstream call.
RatesParams(base, target) ==
    IF target # "" THEN [from |-> base, to |-> target] ELSE [from |-> base]

\* RatesRejects that lets a request through when it names a target.
RatesRejects_UnlessTarget(loc) == loc.base = "" /\ loc.target = ""

\* Line 49: `not base_currency`.
RatesRejects(loc) == loc.base = ""

\* Lines 68-93: the response to an upstream reply; jsonExc is the class of the
\* exception response.json() raises on a body that is not JSON.
RatesResponse(r, jsonExc) ==
    IF r = Fail \/ RaisesForStatus(r) THEN Reply500("External API error")
    ELSE IF r.body = NotJson
    THEN Reply500(IF jsonExc = "RequestException" THEN "External API error"
                  ELSE "Internal server error")
    ELSE [status |-> 200, success |-> TRUE, data |-> r.body]

(***************************************************************************)
(* The requests of the model.                                              *)
(***************************************************************************)
PairKeys == {"base", "target", "start_date", "end_date"}

\* The JSON object with the given members; a member that is Absent is left out.
MkPair(b, t, s, e) ==
    LET m == [base |-> b, target |-> t, start_date |-> s, end_date |-> e]
    IN  Obj([key \in {x \in PairKeys : m[x] # Absent} |-> m[key]])

BaseVals == {Absent, Str(""), Str("usd"), Str("GBP"), Num(5)}
TargetVals == {Str("USD"), Str("cad"), Str("GBP"), Null}

\* The elements a `pairs` list is drawn from: every base with every target,
\* and one pair without a target; pairs without a start date, well-formed and ill-typed; the ways to give the
\* dates of a well-formed pair; and an element that is not an object.
PairDomain ==
    {MkPair(b, t, Str("2023-01-01"), Str("2023-01-31")) : b \in BaseVals, t \in TargetVals}
    \cup {MkPair(Str("usd"), Absent, Str("2023-01-01"), Str("2023-01-31"))}
    \cup {MkPair(b, t, Absent, Str("2023-01-31")) : b \in {Str("usd"), Num(5)}, t \in {Str("cad"), Null}}
    \cup {MkPair(Str("usd"), Str("cad"), s, Str("2023-01-31")) : s \in {Str(""), Null}}
    \cup {MkPair(Str("usd"), Str("cad"), Str("2023-01-01"), e) : e \in {Absent, Str("")}}
    \cup {Str("USD/CAD")}

PairLists == UNION {[1..n -> PairDomain] : n \in 1..MaxPairs}

BatchBodies ==
    {Malformed, Null, Num(0), Num(5), Str(""), Str("abc"), Str("my pairs"),
     Arr(<<>>), Arr(<<Num(1)>>), Arr(<<Str("pairs")>>),
     Obj(<<>>), Obj([other |-> Num(1)]),
     Obj([pairs |-> Arr(<<>>)]), Obj([pairs |-> Obj([base |-> Str("USD")])]),
     Obj([pairs |-> Str("USD/CAD")]), Obj([pairs |-> Num(5)]), Obj([pairs |-> Null])}
    \cup {Obj([pairs |-> Arr(l)]) : l \in PairLists}

RatesArgs ==
    {MkPair(b, t, sd, ed) :
        b \in {Absent, Str(""), Str("usd"), Str("EUR")},
        t \in {Absent, Str(""), Str("cad")},
        sd \in {Absent, Str(""), Str("2023-01-01")},
        ed \in {Absent, Str(""), Str("2023-01-31")}}

NoLocals == [k |-> "none"]
NoResponse == [status |-> 0]

(***************************************************************************)
(* The state machine.                                                      *)
(***************************************************************************)
Init ==
    /\ pc = "idle"
    /\ request = NoValue
    /\ idx = 0
    /\ cur = NoLocals
    /\ api = NoValue
    /\ results = <<>>
    /\ errors = <<>>
    /\ resultIdx = <<>>
    /\ calls = <<>>
    /\ response = NoResponse

pairs == request.body.o["pairs"].a
ThePair == pairs[idx + 1]

\* POST /api/rates/multiple arrives: lines 121-141.
ReceiveBatch ==
    /\ pc = "idle"
    /\ \E body \in BatchBodies :
         LET e == BatchEntry(body) IN
         /\ request' = [route |-> "multiple", body |-> body]
         /\ IF e.respond
            THEN /\ response' = e.response
                 /\ pc' = "done"
            ELSE /\ response' = response
                 /\ pc' = "pair"
    /\ UNCHANGED <<idx, cur, api, results, errors, resultIdx, calls>>

\* One iteration of the loop up to the upstream call: lines 143-160, and the
\* except clauses when the pair is rejected.
ProcessPair ==
    /\ pc = "pair"
    /\ idx < Len(pairs)
    /\ \E now \in LocalDates :
         LET c == CheckPair(ThePair, now) IN
         IF c.raised
         THEN /\ errors' = RecordError(errors, idx, ThePair, c.exc, c.msg)
              /\ idx' = idx + 1
              /\ UNCHANGED <<pc, cur>>
         ELSE /\ cur' = c.val
              /\ pc' = "get"
              /\ UNCHANGED <<errors, idx>>
    /\ UNCHANGED <<request, api, results, resultIdx, calls, response>>

\* Lines 162-165: the GET leaves.
IssueGet ==
    /\ pc = "get"
    /\ calls' = Append(calls, [index |-> idx,
                               path |-> RangePath(cur.start_date, cur.end_date),
                               params |-> [from |-> cur.base, to |-> cur.target],
                               reply |-> NoValue])
    /\ pc' = "wait"
    /\ UNCHANGED <<request, idx, cur, api, results, errors, resultIdx, response>>

\* Lines 165-168: the call returns or raises; raise_for_status; response.json().
UpstreamReply ==
    /\ pc = "wait"
    /\ \E r \in Replies, jsonExc \in JsonErrorClasses :
         /\ calls' = [calls EXCEPT ![Len(calls)].reply = r]
         /\ IF r = Fail \/ RaisesForStatus(r)
            THEN /\ errors' = RecordError(errors, idx, ThePair, "RequestException", "upstream")
                 /\ idx' = idx + 1
                 /\ pc' = "pair"
                 /\ cur' = NoLocals
                 /\ api' = api
            ELSE IF r.body = NotJson
            THEN /\ errors' = RecordError(errors, idx, ThePair, jsonExc, "Expecting value")
                 /\ idx' = idx + 1
                 /\ pc' = "pair"
                 /\ cur' = NoLocals
                 /\ api' = api
            ELSE /\ api' = r.body
                 /\ pc' = "transform"
                 /\ UNCHANGED <<errors, idx, cur>>
    /\ UNCHANGED <<request, results, resultIdx, response>>

\* Lines 170-192, and the last except clause when the upstream JSON has an
\* unexpected shape.
TransformPair ==
    /\ pc = "transform"
    /\ LET t == TransformRates(api, cur.target) IN
       IF t.raised
       THEN /\ errors' = RecordError(errors, idx, ThePair, t.exc, t.msg)
            /\ UNCHANGED <<results, resultIdx>>
       ELSE /\ results' = Append(results, ResultEntry(cur, t.val))
            /\ resultIdx' = Append(resultIdx, idx)
            /\ errors' = errors
    /\ idx' = idx + 1
    /\ pc' = "pair"
    /\ cur' = NoLocals
    /\ api' = NoValue
    /\ UNCHANGED <<request, calls, response>>

\* Lines 213-220: the loop has ended.
RespondBatch ==
    /\ pc = "pair"
    /\ idx = Len(pairs)
    /\ response' = BatchResponse(pairs, results, errors)
    /\ pc' = "done"
    /\ UNCHANGED <<request, idx, cur, api, results, errors, resultIdx, calls>>

\* GET /api/rates arrives: lines 44-54.
ReceiveRates ==
    /\ pc = "idle"
    /\ \E args \in RatesArgs :
         LET loc == RatesLocals(args) IN
         /\ request' = [route |-> "rates", args |-> args]
         /\ IF RatesRejects(loc)
            THEN /\ response' = Reply400("Missing required parameter: base")
                 /\ pc' = "done"
                 /\ cur' = cur
            ELSE /\ response' = response
                 /\ pc' = "rates_get"
                 /\ cur' = loc
    /\ UNCHANGED <<idx, api, results, errors, resultIdx, calls>>

\* Lines 56-68: the GET leaves.
IssueRatesGet ==
    /\ pc = "rates_get"
    /\ calls' = Append(calls, [index |-> 0,
                               path |-> RatesPath(cur.start_date, cur.end_date),
                               params |-> RatesParams(cur.base, cur.target),
                               reply |-> NoValue])
    /\ pc' = "rates_wait"
    /\ UNCHANGED <<request, idx, cur, api, results, errors, resultIdx, response>>

\* Lines 68-93: the call returns or raises, and the handler answers.
RatesReply ==
    /\ pc = "rates_wait"
    /\ \E r \in Replies, jsonExc \in JsonErrorClasses :
         /\ calls' = [calls EXCEPT ![Len(calls)].reply = r]
         /\ response' = RatesResponse(r, jsonExc)
    /\ pc' = "done"
    /\ UNCHANGED <<request, idx, cur, api, results, errors, resultIdx>>

Next ==
    \/ ReceiveBatch
    \/ ProcessPair
    \/ IssueGet
    \/ UpstreamReply
    \/ TransformPair
    \/ RespondBatch
    \/ ReceiveRates
    \/ IssueRatesGet
    \/ RatesReply

Spec == Init /\ [][Next]_vars

(***************************************************************************)
(* The transformation on its own: a batch of one well-formed pair whose    *)
(* upstream call has just returned JSON, for every upstream JSON of the    *)
(* sets below.                                                             *)
(***************************************************************************)
Currencies == {"CAD", "EUR"}
RateNums == {Num(135), Num(92)}

RateDataVals ==
    {Obj(f) : f \in UNION {[S -> RateNums] : S \in SUBSET Currencies}}
    \cup {Num(3), Str("CAD=1.35"), Str("n/a")}

\* The orders in which n distinct date keys can be listed.
DateOrders(n) ==
    {o \in [1..n -> 1..Len(DateKeys)] : \A i, j \in 1..n : i # j => o[i] # o[j]}

RatesMappings ==
    UNION {{OMap([i \in 1..n |-> Entry(DateKeys[o[i]], v[i])]) :
               o \in DateOrders(n), v \in [1..n -> RateDataVals]} : n \in 0..MaxDates}

ApiData ==
    {Num(7), Null, Arr(<<>>), Arr(<<Str("rates")>>), Str("no rates"),
     Obj([amount |-> Num(1)]), Obj([rates |-> Null]), Obj([rates |-> Arr(<<>>)])}
    \cup {Obj([rates |-> m]) : m \in RatesMappings}

TransformPairs ==
    {MkPair(Str("usd"), Str("cad"), Str("2023-01-01"), Str("2023-01-31")),
     MkPair(Str("usd"), Str("eur"), Str("2023-01-01"), Str("2023-01-31"))}

InitTransform ==
    \E p \in TransformPairs, data \in ApiData :
        LET loc == CheckPair(p, UtcToday).val IN
        /\ pc = "transform"
        /\ request = [route |-> "multiple", body |-> Obj([pairs |-> Arr(<<p>>)])]
        /\ idx = 0
        /\ cur = loc
        /\ api = data
        /\ results = <<>>
        /\ errors = <<>>
        /\ resultIdx = <<>>
        /\ calls = <<[index |-> 0,
                      path |-> RangePath(loc.start_date, loc.end_date),
                      params |-> [from |-> loc.base, to |-> loc.target],
                      reply |-> Http(200, data)]>>
        /\ response = NoResponse

NextTransform ==
    \/ TransformPair
    \/ RespondBatch

SpecTransform == InitTransform /\ [][NextTransform]_vars


(***************************************************************************)
(* Vocabulary of the properties.                                           *)
(***************************************************************************)
IsBatch == pc # "idle" /\ request.route = "multiple"
IsRates == pc # "idle" /\ request.route = "rates"

\* The body is a JSON object whose `pairs` is a non-empty list.
HasPairList(body) ==
    /\ body.k = "obj"
    /\ "pairs" \in DOMAIN body.o
    /\ body.o["pairs"].k = "arr"
    /\ Len(body.o["pairs"].a) > 0

\* The batch handler is in its loop or has answered after it.
InBatchLoop == IsBatch /\ HasPairList(request.body)
BatchAnswered == InBatchLoop /\ pc = "done"

CallsFor(i) == {n \in 1..Len(calls) : calls[n].index = i}
ErrorsFor(i) == {n \in 1..Len(errors) : errors[n].index = i}
ResultsFor(i) == {n \in 1..Len(resultIdx) : resultIdx[n] = i}

\* Pair i is rejected before any upstream call (the outcome of lines 145-160
\* does not depend on the clock).
Rejected(i) == CheckPair(pairs[i + 1], UtcToday).raised

\* The reply a call received makes its pair fail.
ReplyFails(c) ==
    \/ c.reply = Fail
    \/ RaisesForStatus(c.reply)
    \/ c.reply.body = NotJson
    \/ TransformRates(c.reply.body, c.params.to).raised

\* Pair i, whose processing has ended, failed.
Failed(i) == Rejected(i) \/ \E n \in CallsFor(i) : ReplyFails(calls[n])

\* A required member of the pair is absent or the empty string.
MissesField(p) ==
    /\ p.k = "obj"
    /\ \E key \in {"base", "target", "start_date"} :
         key \notin DOMAIN p.o \/ p.o[key] = Str("")

\* base or target is a currency code outside the allow-list.
NamesUnsupported(p) ==
    /\ p.k = "obj"
    /\ \E key \in {"base", "target"} :
         /\ key \in DOMAIN p.o
         /\ p.o[key].k = "str"
         /\ p.o[key].s # ""
         /\ Upper(p.o[key].s) \notin supported

\* base and target are the same code once upper-cased.
SameCurrency(p) ==
    /\ p.k = "obj"
    /\ {"base", "target"} \subseteq DOMAIN p.o
    /\ p.o["base"].k = "str"
    /\ p.o["target"].k = "str"
    /\ Upper(p.o["base"].s) = Upper(p.o["target"].s)

ValidationMessages == {MsgMissing, MsgUnsupported, MsgSame}

(***************************************************************************)
(* C1                                                                      *)
(***************************************************************************)
\* C1: in the batch handler every pair is processed exactly once: once the
\* loop has passed index i, a failed pair i has exactly one entry in `errors`,
\* carrying index i and the original pair payload, and none in `results`; a
\* pair that did not fail has exactly one entry in `results` and none in
\* `errors`; no entry exists for an index not yet processed; and the response
\* has successful + failed = total_pairs = len(pairs).
C1_EveryPairOnce ==
    InBatchLoop =>
        /\ idx <= Len(pairs)
        /\ Len(results) + Len(errors) = idx
        /\ Len(resultIdx) = Len(results)
        /\ \A n \in 1..Len(errors) : errors[n].index \in 0..(idx - 1)
        /\ \A n \in 1..Len(resultIdx) : resultIdx[n] \in 0..(idx - 1)
        /\ \A i \in 0..(idx - 1) :
             IF Failed(i)
             THEN /\ Cardinality(ErrorsFor(i)) = 1
                  /\ \A n \in ErrorsFor(i) : errors[n].pair = pairs[i + 1]
                  /\ ResultsFor(i) = {}
             ELSE /\ Cardinality(ResultsFor(i)) = 1
                  /\ ErrorsFor(i) = {}
        /\ pc = "done" =>
             /\ idx = Len(pairs)
             /\ response.total_pairs = Len(pairs)
             /\ response.successful + response.failed = response.total_pairs
             /\ response.failed = Cardinality({i \in 0..(Len(pairs) - 1) : Failed(i)})
             /\ response.results = results

\* A batch has answered in which an element that is no object failed at
\* index 0 and the pair after it succeeded.
C1_Witness ==
    /\ BatchAnswered
    /\ Len(pairs) = 2
    /\ pairs[1].k = "str"
    /\ response.failed = 1
    /\ response.successful = 1
    /\ response.errors.a[1].index = 0

(***************************************************************************)
(* C2                                                                      *)
(***************************************************************************)
\* C2: when the body is a JSON object whose `pairs` is a non-empty list, the
\* batch handler answers 200 whatever the pairs' outcomes; `success` is true
\* exactly when no pair failed, `errors` is null when no pair failed and a
\* non-empty list otherwise.
C2_Always200 ==
    BatchAnswered =>
        LET noneFailed == \A i \in 0..(Len(pairs) - 1) : ~Failed(i) IN
        /\ response.status = 200
        /\ response.success = noneFailed
        /\ noneFailed => response.errors = Null
        /\ ~noneFailed => response.errors.k = "arr" /\ Len(response.errors.a) > 0

\* A batch of two pairs has answered and both pairs failed.
C2_Witness ==
    /\ BatchAnswered
    /\ Len(pairs) = 2
    /\ Failed(0) /\ Failed(1)
    /\ response.status = 200
    /\ response.results = <<>>

(***************************************************************************)
(* C3                                                                      *)
(***************************************************************************)
\* C3: a pair whose base equals its target once upper-cased never has an
\* upstream call, and has an entry in `errors` at its index as soon as the
\* loop has passed it.
C3_SameCurrencyRejected ==
    InBatchLoop =>
        \A i \in 0..(Len(pairs) - 1) :
            SameCurrency(pairs[i + 1]) =>
                /\ CallsFor(i) = {}
                /\ i < idx => ErrorsFor(i) # {}
                /\ (i = idx) => pc \in {"pair", "done"}

\* The pair usd/USD has been rejected for naming one currency twice.
C3_Witness ==
    /\ InBatchLoop
    /\ \E n \in 1..Len(errors) :
         /\ errors[n].pair.k = "obj"
         /\ SameCurrency(errors[n].pair)
         /\ errors[n].pair.o["base"] = Str("usd")
         /\ errors[n].error = MsgSame

(***************************************************************************)
(* C4                                                                      *)
(***************************************************************************)
\* C4 (first half, which the code satisfies): an upstream GET is issued for a
\* pair only if base, target and start_date are non-empty and the upper-cased
\* base and target are in the allow-list.
C4_CallOnlyIfValid ==
    InBatchLoop =>
        \A n \in 1..Len(calls) :
            LET p == pairs[calls[n].index + 1] IN
            /\ ~MissesField(p)
            /\ ~NamesUnsupported(p)
            /\ calls[n].params.from \in supported
            /\ calls[n].params.to \in supported

\* C4: an upstream GET is issued only for a pair with non-empty base, target
\* and start_date and allow-listed currencies; a pair that misses a required
\* field or names a currency outside the allow-list gets a validation error
\* recorded at its index, and no upstream call.
C4_ValidationError ==
    InBatchLoop =>
        /\ C4_CallOnlyIfValid
        /\ \A i \in 0..(idx - 1) :
             (MissesField(pairs[i + 1]) \/ NamesUnsupported(pairs[i + 1])) =>
                 /\ CallsFor(i) = {}
                 /\ \E n \in ErrorsFor(i) : errors[n].error \in ValidationMessages

(***************************************************************************)
(* C5                                                                      *)
(***************************************************************************)
\* C5: whatever JSON value the body parses to, the batch handler answers 400
\* and makes no upstream call unless the value is an object whose `pairs` is
\* a non-empty list.
C5_BadBody400 ==
    (IsBatch /\ request.body # Malformed /\ ~HasPairList(request.body)) =>
        /\ pc = "done"
        /\ response.status = 400
        /\ calls = <<>>

(***************************************************************************)
(* C6                                                                      *)
(***************************************************************************)
\* The query parameter is given and not empty.
Given(key) == key \in DOMAIN request.args.o /\ request.args.o[key].s # ""
Arg(key) == request.args.o[key].s

\* C6: the upstream call of the single-pair handler has the path
\* "{start_date}..{end_date}" when both dates are given, "{start_date}" when
\* only start_date is given, and "latest" otherwise; its query carries
\* from = the upper-cased base, and to = the upper-cased target exactly when a
\* target is given.
C6_RatesUrl ==
    IsRates =>
        \A n \in 1..Len(calls) :
            /\ Given("base")
            /\ calls[n].path =
                 (IF Given("start_date") /\ Given("end_date")
                  THEN Arg("start_date") \o ".." \o Arg("end_date")
                  ELSE IF Given("start_date") THEN Arg("start_date")
                  ELSE "latest")
            /\ calls[n].params.from = Upper(Arg("base"))
            /\ ("to" \in DOMAIN calls[n].params) = Given("target")
            /\ Given("target") => calls[n].params.to = Upper(Arg("target"))

\* A request that gives only end_date (and a lower-case base and target) has
\* been forwarded to "latest".
C6_Witness ==
    /\ IsRates
    /\ Len(calls) = 1
    /\ Given("end_date") /\ ~Given("start_date")
    /\ calls[1].path = "latest"
    /\ calls[1].params = [from |-> "USD", to |-> "CAD"]

(***************************************************************************)
(* C7                                                                      *)
(***************************************************************************)
\* The reply is a success: a 2xx/3xx status with a JSON body.
ReplyOk(r) == r # Fail /\ ~RaisesForStatus(r) /\ r.body # NotJson

\* C7: the single-pair handler answers 400 exactly when base is missing or
\* empty, and then without an upstream call; otherwise it issues exactly one
\* upstream GET and answers 200 with the upstream JSON unchanged when the call
\* succeeds and 500 with success false when it fails in any way; it answers
\* with no other status.
C7_RatesStatus ==
    IsRates =>
        /\ Len(calls) <= 1
        /\ ~Given("base") => pc = "done" /\ calls = <<>>
        /\ pc = "done" =>
             /\ response.status \in {200, 400, 500}
             /\ (response.status = 400) = ~Given("base")
             /\ Given("base") =>
                  /\ Len(calls) = 1
                  /\ IF ReplyOk(calls[1].reply)
                     THEN /\ response.status = 200
                          /\ response.success = TRUE
                          /\ response.data = calls[1].reply.body
                     ELSE /\ response.status = 500
                          /\ response.success = FALSE

\* The upstream answered 200 with a body that is not JSON, and the handler
\* answered 500 after its single call.
C7_Witness ==
    /\ IsRates
    /\ pc = "done"
    /\ Len(calls) = 1
    /\ calls[1].reply = Http(200, NotJson)
    /\ response.status = 500

(***************************************************************************)
(* C8                                                                      *)
(***************************************************************************)
\* The entries of the upstream rates mapping the call for pair i received
\* (none when the JSON has no `rates`).
UpstreamItems(i) ==
    LET body == calls[CHOOSE n \in CallsFor(i) : TRUE].reply.body IN
    IF body.k = "obj" /\ "rates" \in DOMAIN body.o /\ body.o["rates"].k = "omap"
    THEN body.o["rates"].e
    ELSE <<>>

\* The value upstream gives for a date holds the target currency.
HoldsTarget(val, target) == val.k = "obj" /\ target \in DOMAIN val.o

\* C8: the `data` of a successful pair has exactly one {date, rate} entry for
\* each date of the upstream rates mapping whose value holds the target
\* currency, with the upstream value of the target as rate, and no other
\* entry; it is in ascending date order; and `count` is its length.
C8_DataFromUpstream ==
    IsBatch =>
        \A n \in 1..Len(results) :
            LET r == results[n]
                items == UpstreamItems(resultIdx[n])
                kept == {m \in 1..Len(items) : HoldsTarget(items[m].val, r.target_currency)}
            IN  /\ Len(r.data) = Cardinality(kept)
                /\ \A m \in kept :
                     \E d \in 1..Len(r.data) :
                         /\ r.data[d].date = items[m].key
                         /\ r.data[d].rate = items[m].val.o[r.target_currency]
                /\ \A a, b \in 1..Len(r.data) :
                     a < b => DateRank(r.data[a].date) < DateRank(r.data[b].date)
                /\ r.count = Len(r.data)

\* Upstream listed two dates with the later one first, both holding the
\* target, and the pair's data lists both.
C8_Witness ==
    /\ IsBatch
    /\ Len(results) = 1
    /\ LET items == UpstreamItems(resultIdx[1]) IN
       /\ Len(items) = 2
       /\ DateRank(items[1].key) > DateRank(items[2].key)
       /\ Len(results[1].data) = 2

(***************************************************************************)
(* C9                                                                      *)
(***************************************************************************)
\* C9: a pair without end_date is processed with the current UTC date: its
\* upstream path is "{start_date}..{UTC date}" and its result reports that
\* date; a pair that gives an end_date keeps the value it gave.
C9_DefaultEndUtc ==
    InBatchLoop =>
        /\ \A n \in 1..Len(calls) :
             LET p == pairs[calls[n].index + 1] IN
             calls[n].path =
                 Format(p.o["start_date"]) \o ".." \o
                 (IF "end_date" \in DOMAIN p.o THEN Format(p.o["end_date"]) ELSE UtcToday)
        /\ \A n \in 1..Len(results) :
             LET p == pairs[resultIdx[n] + 1] IN
             results[n].end_date =
                 (IF "end_date" \in DOMAIN p.o THEN p.o["end_date"] ELSE Str(UtcToday))

(***************************************************************************)
(* C10                                                                     *)
(***************************************************************************)
\* C10: the upstream calls of a batch are sequential and never repeated: the
\* calls were issued in strictly ascending pair order (so at most one per
\* pair); every pair the loop has passed has exactly one call if it passed
\* validation (also when that call failed) and none otherwise; whenever a call
\* for pair j has been issued, the outcome of every pair i < j is recorded; and
\* `results` and `errors` are in ascending input order.
C10_Sequential ==
    InBatchLoop =>
        /\ \A a, b \in 1..Len(calls) : a < b => calls[a].index < calls[b].index
        /\ \A i \in 0..(idx - 1) :
             Cardinality(CallsFor(i)) = (IF Rejected(i) THEN 0 ELSE 1)
        /\ \A n \in 1..Len(calls) :
             /\ calls[n].index <= idx
             /\ \A i \in 0..(calls[n].index - 1) : ErrorsFor(i) \cup ResultsFor(i) # {}
             /\ ErrorsFor(calls[n].index) \cup ResultsFor(calls[n].index) # {}
                  => calls[n].reply # NoValue
        /\ \A a, b \in 1..Len(errors) : a < b => errors[a].index < errors[b].index
        /\ \A a, b \in 1..Len(resultIdx) : a < b => resultIdx[a] < resultIdx[b]

\* Two calls have been issued, the first failed, and its error was recorded
\* before the second left.
C10_Witness ==
    /\ InBatchLoop
    /\ Len(calls) = 2
    /\ calls[1].reply = Fail
    /\ calls[2].reply = NoValue
    /\ Len(errors) = 1
    /\ errors[1].index = calls[1].index

====
